---- MODULE Spec2Model ----
(***************************************************************************)
(* Windows device discovery and identity resolution of hidapi-rs           *)
(* (src/src/windows_native.rs): the enumeration pass of                    *)
(* get_hid_device_info_vector, and the resolution of one device record by  *)
(* get_device_info / get_internal_info / get_usb_info / get_ble_info.      *)
(*                                                                         *)
(* Strings are sequences of UTF-16 code units (integers); property values  *)
(* are sequences of bytes, as the platform returns them.  The platform     *)
(* (CM_*, HidD_*, CreateFileW) is the environment: each call's answer is   *)
(* drawn from a small pool when the call is made.                          *)
(***************************************************************************)
EXTENDS Integers, Sequences, FiniteSets, TLC

(***************************************************************************)
(* Bounds of the model.                                                    *)
(***************************************************************************)
\* Interface paths in the list the platform reports.
MaxInterfaces == 2
\* Size/fetch cycles of get_interface_list that may report buffer-too-small.
MaxRetries == 1

(***************************************************************************)
(* Option and outcome values.  Kind "Panic" is an abort (unwrap, assert,   *)
(* arithmetic overflow check) raised while the value was computed.         *)
(***************************************************************************)
None == [kind |-> "None"]
Some(v) == [kind |-> "Some", val |-> v]
Panic == [kind |-> "Panic"]

Min(a, b) == IF a <= b THEN a ELSE b

(***************************************************************************)
(* Text literals.  A literal is written as a tuple of one-character        *)
(* strings; U16 is str::encode_utf16 on it (the literals are ASCII, plus     *)
(* the two named units NUL and HS).                                        *)
(***************************************************************************)
Digits == <<"0", "1", "2", "3", "4", "5", "6", "7", "8", "9">>
UpperCase ==
  <<"A", "B", "C", "D", "E", "F", "G", "H", "I", "J", "K", "L", "M",
    "N", "O", "P", "Q", "R", "S", "T", "U", "V", "W", "X", "Y", "Z">>
LowerCase ==
  <<"a", "b", "c", "d", "e", "f", "g", "h", "i", "j", "k", "l", "m",
    "n", "o", "p", "q", "r", "s", "t", "u", "v", "w", "x", "y", "z">>

IndexIn(table, c) == CHOOSE i \in 1..Len(table) : table[i] = c
Has(table, c) == \E i \in 1..Len(table) : table[i] = c

\* The code unit of a one-character literal.  "NUL" is U+0000, "HS" an
\* unpaired high surrogate (U+D800).
CodeUnit(c) ==
  IF c = "NUL" THEN 0
  ELSE IF c = "HS" THEN 55296
  ELSE IF c = "&" THEN 38
  ELSE IF c = "\\" THEN 92
  ELSE IF c = "_" THEN 95
  ELSE IF Has(Digits, c) THEN 47 + IndexIn(Digits, c)
  ELSE IF Has(UpperCase, c) THEN 64 + IndexIn(UpperCase, c)
  ELSE 96 + IndexIn(LowerCase, c)

U16(lit) == [i \in 1..Len(lit) |-> CodeUnit(lit[i])]

(***************************************************************************)
(* bytemuck::cast_slice between the property bytes (Vec<u8>) and u16 code  *)
(* units, little endian.  A byte length that is not a multiple of two      *)
(* makes cast_slice panic.                                                 *)
(***************************************************************************)
RECURSIVE le_bytes(_)
le_bytes(u) ==
  IF u = <<>> THEN <<>>
  ELSE <<u[1] % 256, u[1] \div 256>> \o le_bytes(Tail(u))

cast_slice(bytes) ==
  IF Len(bytes) % 2 # 0 THEN Panic
  ELSE Some([i \in 1..(Len(bytes) \div 2) |-> bytes[2 * i - 1] + 256 * bytes[2 * i]])

(***************************************************************************)
(* slice::split(|c| *c == sep): the maximal runs between separators, the   *)
(* empty runs included (a trailing separator yields a trailing empty run). *)
(***************************************************************************)
RECURSIVE split_from(_, _, _)
split_from(s, sep, cur) ==
  IF s = <<>> THEN <<cur>>
  ELSE IF s[1] = sep THEN <<cur>> \o split_from(Tail(s), sep, <<>>)
  ELSE split_from(Tail(s), sep, Append(cur, s[1]))

split(s, sep) == split_from(s, sep, <<>>)

(***************************************************************************)
(* char::decode_utf16: one item per decoded scalar value; an unpaired      *)
(* surrogate decodes to DecodeErr.                                         *)
(***************************************************************************)
DecodeErr == -1
REPLACEMENT_CHARACTER == 65533

IsHighSurrogate(u) == u >= 55296 /\ u <= 56319
IsLowSurrogate(u) == u >= 56320 /\ u <= 57343

RECURSIVE decode_utf16(_)
decode_utf16(s) ==
  IF s = <<>> THEN <<>>
  ELSE IF IsHighSurrogate(s[1])
    THEN IF Len(s) >= 2 /\ IsLowSurrogate(s[2])
           THEN <<65536 + (s[1] - 55296) * 1024 + (s[2] - 56320)>>
                  \o decode_utf16(SubSeq(s, 3, Len(s)))
           ELSE <<DecodeErr>> \o decode_utf16(Tail(s))
  ELSE IF IsLowSurrogate(s[1]) THEN <<DecodeErr>> \o decode_utf16(Tail(s))
  ELSE <<s[1]>> \o decode_utf16(Tail(s))

(***************************************************************************)
(* WcharString: String(text) holds decoded scalar values, Raw(units) the   *)
(* code units that failed to decode.                                       *)
(***************************************************************************)
WString(chars) == [kind |-> "String", val |-> chars]
WRaw(units) == [kind |-> "Raw", val |-> units]

\* String::from_utf16(..).map(String).unwrap_or_else(Raw)
u16str_to_wstring(u16str) ==
  LET d == decode_utf16(u16str)
  IN IF \E i \in 1..Len(d) : d[i] = DecodeErr THEN WRaw(u16str) ELSE WString(d)

(***************************************************************************)
(* ASCII case.                                                             *)
(***************************************************************************)
to_ascii_uppercase(c) == IF c >= 97 /\ c <= 122 THEN c - 32 ELSE c
to_ascii_lowercase(c) == IF c >= 65 /\ c <= 90 THEN c + 32 ELSE c
eq_ignore_ascii_case(l, r) == to_ascii_lowercase(l) = to_ascii_lowercase(r)

\* to_upper: only the units that fit a u8 are upper-cased.
to_upper(u16str) ==
  [i \in 1..Len(u16str) |->
     IF u16str[i] <= 255 THEN to_ascii_uppercase(u16str[i]) ELSE u16str[i]]

(***************************************************************************)
(* find_first_upper_case: index (from 0) of the first window equal to the  *)
(* pattern.                                                                *)
(***************************************************************************)
find_first_upper_case(u16str, pattern) ==
  LET n == Len(pattern)
      hits == {i \in 0..(Len(u16str) - n) :
                 \A k \in 1..n : u16str[i + k] = pattern[k]}
  IN IF hits = {} THEN None
     ELSE Some(CHOOSE i \in hits : \A j \in hits : i <= j)

(***************************************************************************)
(* starts_with_ignore_case: zip of the decoded haystack with the pattern,  *)
(* so the comparison covers only as many characters as the shorter of the  *)
(* two has.                                                                *)
(***************************************************************************)
starts_with_ignore_case(utf16str, pattern) ==
  LET d == decode_utf16(utf16str)
      l == [i \in 1..Len(d) |-> IF d[i] = DecodeErr THEN REPLACEMENT_CHARACTER ELSE d[i]]
  IN \A i \in 1..Min(Len(l), Len(pattern)) : eq_ignore_ascii_case(l[i], pattern[i])

(***************************************************************************)
(* extract_int_token_value.                                                *)
(***************************************************************************)
\* char::to_digit(16): the digit's value, or -1.
to_digit16(c) ==
  IF c >= 48 /\ c <= 57 THEN c - 48
  ELSE IF c >= 65 /\ c <= 70 THEN c - 55
  ELSE IF c >= 97 /\ c <= 102 THEN c - 87
  ELSE -1

\* map_while: the digits of the maximal leading run of hexadecimal digits.
RECURSIVE hex_run(_)
hex_run(d) ==
  IF d = <<>> \/ d[1] = DecodeErr \/ to_digit16(d[1]) = -1 THEN <<>>
  ELSE <<to_digit16(d[1])>> \o hex_run(Tail(d))

\* A u32 is held as its two 16-bit halves, [hi, lo], value hi * 65536 + lo.
U32(hi, lo) == [hi |-> hi, lo |-> lo]
\* `as u16` keeps the low half, `as i32` reads the 32 bits as two's complement.
u32_as_u16(v) == v.lo
u32_as_i32(v) ==
  IF v.hi >= 32768 THEN (v.hi - 65536) * 65536 + v.lo ELSE v.hi * 65536 + v.lo

\* reduce(|l, r| l * 16 + r) in u32: with overflow checks the first
\* overflowing step panics, without them the value wraps.
RECURSIVE fold_hex(_, _, _)
fold_hex(acc, digits, overflow_checks) ==
  IF digits = <<>> THEN Some(acc)
  ELSE LET lo == acc.lo * 16 + digits[1]
           hi == acc.hi * 16 + (lo \div 65536)
       IN IF hi >= 65536 /\ overflow_checks THEN Panic
          ELSE fold_hex(U32(hi % 65536, lo % 65536), Tail(digits), overflow_checks)

extract_int_token_value(u16str, token, overflow_checks) ==
  LET at == find_first_upper_case(u16str, token)
  IN IF at.kind = "None" THEN None
     ELSE LET start == at.val + Len(token)
              digits == hex_run(decode_utf16(SubSeq(u16str, start + 1, Len(u16str))))
          IN IF digits = <<>> THEN None
             ELSE fold_hex(U32(0, digits[1]), Tail(digits), overflow_checks)

(***************************************************************************)
(* The typed two-phase property fetch.  A response is what the platform    *)
(* answers to the two calls: status, type and length of the size call,     *)
(* status and length of the fetch, and the buffer as the fetch left it.    *)
(***************************************************************************)
\* The calls a fetch makes to `api`, in order, and what it returns.
property_fetch(api, resp, expected_property_type) ==
  LET size_call == [api |-> api, buffer |-> "null", cr |-> resp.cr1,
                    property_type |-> resp.type1, len |-> resp.len1]
      data_call == [api |-> api, buffer |-> "property_value", cr |-> resp.cr2,
                    property_type |-> resp.type1, len |-> resp.len2]
  IN IF ~(resp.cr1 = "CR_BUFFER_SMALL" /\ resp.type1 = expected_property_type)
       THEN [result |-> None, platform_calls |-> <<size_call>>]
     ELSE IF resp.len2 # resp.len1
       THEN [result |-> Panic, platform_calls |-> <<size_call, data_call>>]
     ELSE IF resp.cr2 # "CR_SUCCESS"
       THEN [result |-> None, platform_calls |-> <<size_call, data_call>>]
     ELSE [result |-> Some(resp.value), platform_calls |-> <<size_call, data_call>>]

\* The fetch with the type test of line 716 / 746 moved after the data call.
get_devnode_property_run_late_type_test(resp, expected_property_type) ==
  LET run == property_fetch("CM_Get_DevNode_PropertyW",
                            [resp EXCEPT !.type1 = expected_property_type],
                            expected_property_type)
  IN IF resp.cr1 = "CR_BUFFER_SMALL" /\ resp.type1 # expected_property_type
          /\ run.result.kind = "Some"
       THEN [run EXCEPT !.result = None]
     ELSE run

get_device_interface_property_run(resp, expected_property_type) ==
  property_fetch("CM_Get_Device_Interface_PropertyW", resp, expected_property_type)

get_devnode_property_run(resp, expected_property_type) ==
  property_fetch("CM_Get_DevNode_PropertyW", resp, expected_property_type)

get_device_interface_property(resp, expected_property_type) ==
  get_device_interface_property_run(resp, expected_property_type).result

get_devnode_property(resp, expected_property_type) ==
  get_devnode_property_run(resp, expected_property_type).result

\* CM_Get_Parent: the parent of node n is node n + 1 when the lookup succeeds.
get_dev_node_parent(dev_node, cr) ==
  IF cr = "CR_SUCCESS" THEN Some(dev_node + 1) ELSE None

(***************************************************************************)
(* DeviceInfo accessors and the "still empty" test of the resolvers,       *)
(* dev.manufacturer_string().map_or(true, str::is_empty): the accessor     *)
(* yields a &str only for decoded text.                                    *)
(***************************************************************************)
as_str(ws) == IF ws.kind = "String" THEN Some(ws.val) ELSE None

is_unset(ws) ==
  LET o == as_str(ws) IN IF o.kind = "None" THEN TRUE ELSE o.val = <<>>

(***************************************************************************)
(* Bus classification.                                                     *)
(***************************************************************************)
USB == U16(<<"U", "S", "B">>)
BTHENUM == U16(<<"B", "T", "H", "E", "N", "U", "M">>)
BTHLEDEVICE == U16(<<"B", "T", "H", "L", "E", "D", "E", "V", "I", "C", "E">>)
PNP0C50 == U16(<<"P", "N", "P", "0", "C", "5", "0">>)
PNP0C51 == U16(<<"P", "N", "P", "0", "C", "5", "1">>)

\* The match arms of the filter_map closure, in order.
compatible_id_bus_type(id) ==
  IF starts_with_ignore_case(id, USB) THEN Some("Usb")
  ELSE IF starts_with_ignore_case(id, BTHENUM) THEN Some("Bluetooth")
  ELSE IF starts_with_ignore_case(id, BTHLEDEVICE) THEN Some("BluetoothLE")
  ELSE IF starts_with_ignore_case(id, PNP0C50) THEN Some("I2c")
  ELSE IF starts_with_ignore_case(id, PNP0C51) THEN Some("Spi")
  ELSE None

\* split, filter_map, next, unwrap_or(Unknown): an InternalBuyType.
classify_bus(compatible_ids) ==
  LET ids == split(compatible_ids, 0)
      hits == {i \in 1..Len(ids) : compatible_id_bus_type(ids[i]).kind = "Some"}
  IN IF hits = {} THEN "Unknown"
     ELSE compatible_id_bus_type(ids[CHOOSE i \in hits : \A j \in hits : i <= j]).val

\* impl From<InternalBuyType> for BusType
BusTypeFrom(value) ==
  CASE value = "Unknown" -> "Unknown"
    [] value = "Usb" -> "Usb"
    [] value = "Bluetooth" -> "Bluetooth"
    [] value = "BluetoothLE" -> "Bluetooth"
    [] value = "I2c" -> "I2c"
    [] value = "Spi" -> "Spi"

(***************************************************************************)
(* The resolver state: the position in get_device_info and its callees,    *)
(* the record under construction, the current device-tree node, and the    *)
(* log of the calls made so far with what each returned.                   *)
(***************************************************************************)
Call(op, node, key, res) == [op |-> op, node |-> node, key |-> key, res |-> res]

Goto(r, pc, calls) == [r EXCEPT !.pc = pc, !.calls = calls]

(***************************************************************************)
(* get_device_info, lines 104-136: the fast path.                          *)
(***************************************************************************)
\* UTF-8 bytes of one scalar value.
utf8(c) ==
  IF c < 128 THEN <<c>>
  ELSE IF c < 2048 THEN <<192 + (c \div 64), 128 + (c % 64)>>
  ELSE IF c < 65536 THEN <<224 + (c \div 4096), 128 + ((c \div 64) % 64), 128 + (c % 64)>>
  ELSE <<240 + (c \div 262144), 128 + ((c \div 4096) % 64),
         128 + ((c \div 64) % 64), 128 + (c % 64)>>

RECURSIVE utf8_bytes(_)
utf8_bytes(chars) ==
  IF chars = <<>> THEN <<>> ELSE utf8(chars[1]) \o utf8_bytes(Tail(chars))

\* CString::new(String::from_utf16(path).unwrap()).unwrap()
path_to_cstring(path) ==
  LET d == decode_utf16(path)
  IN IF \E i \in 1..Len(d) : d[i] = DecodeErr THEN Panic
     ELSE IF \E i \in 1..Len(d) : d[i] = 0 THEN Panic
     ELSE Some(utf8_bytes(d))

\* read_string: the text up to the first NUL of the buffer, or the empty
\* string when the call fails.
read_string(answer) ==
  IF answer.ok THEN u16str_to_wstring(split(answer.buf, 0)[1])
  ELSE WString(<<>>)

build_device_info(r, path, ans) ==
  LET p == path_to_cstring(path)
  IN IF p.kind = "Panic" THEN Goto(r, "panic", r.calls)
     ELSE [r EXCEPT
             !.pc = "internal_locate",
             !.dev = [path |-> p.val,
                      vendor_id |-> ans.attrib.VendorID,
                      product_id |-> ans.attrib.ProductID,
                      serial_number |-> read_string(ans.serial),
                      release_number |-> ans.attrib.VersionNumber,
                      manufacturer_string |-> read_string(ans.manufacturer),
                      product_string |-> read_string(ans.product),
                      usage_page |-> ans.caps.UsagePage,
                      usage |-> ans.caps.Usage,
                      interface_number |-> -1,
                      bus_type |-> "Unknown"]]

(***************************************************************************)
(* get_internal_info.                                                      *)
(***************************************************************************)
\* Lines 143-150: the interface's instance id, its node, the node's parent.
internal_locate(r, ans) ==
  LET device_id == get_device_interface_property(ans.id, "DEVPROP_TYPE_STRING")
      c1 == Append(r.calls,
                   Call("get_device_interface_property", 0, "DEVPKEY_Device_InstanceId", device_id))
      c2 == Append(c1, Call("CM_Locate_DevNodeW", 0, "", ans.cr))
      parent == get_dev_node_parent(1, ans.parent)
      c3 == Append(c2, Call("get_dev_node_parent", 1, "", parent))
  IN IF device_id.kind = "Panic" THEN Goto(r, "panic", c1)
     ELSE IF device_id.kind = "None" THEN Goto(r, "returned", c1)
     ELSE IF ans.cr # "CR_SUCCESS" THEN Goto(r, "returned", c2)
     ELSE IF parent.kind = "None" THEN Goto(r, "returned", c3)
     ELSE [Goto(r, "internal_classify", c3) EXCEPT !.dev_node = parent.val]

\* Lines 152-180: the compatible ids, the bus type, the dispatch.
internal_classify(r, ans) ==
  LET compatible_ids == get_devnode_property(ans.compat, "DEVPROP_TYPE_STRING_LIST")
      c1 == Append(r.calls,
                   Call("get_devnode_property", r.dev_node, "DEVPKEY_Device_CompatibleIds",
                        compatible_ids))
      ids == cast_slice(compatible_ids.val)
  IN IF compatible_ids.kind = "Panic" THEN Goto(r, "panic", c1)
     ELSE IF compatible_ids.kind = "None" THEN Goto(r, "returned", c1)
     ELSE IF ids.kind = "Panic" THEN Goto(r, "panic", c1)
     ELSE LET bus_type == classify_bus(ids.val)
              d == [r.dev EXCEPT !.bus_type = BusTypeFrom(bus_type)]
          IN CASE bus_type = "Usb" ->
                    [Goto(r, "usb_instance_id",
                          Append(c1, Call("get_usb_info", r.dev_node, "", None)))
                       EXCEPT !.dev = d]
               [] bus_type = "BluetoothLE" ->
                    [Goto(r, "ble_manufacturer",
                          Append(c1, Call("get_ble_info", r.dev_node, "", None)))
                       EXCEPT !.dev = d]
               [] OTHER -> [Goto(r, "returned", c1) EXCEPT !.dev = d]

(***************************************************************************)
(* get_usb_info.                                                           *)
(***************************************************************************)
IG_ == U16(<<"I", "G", "_">>)
REV_ == U16(<<"R", "E", "V", "_">>)
MI_ == U16(<<"M", "I", "_">>)

\* get_usb_info's first step scanning the instance id as fetched, without
\* the upper-casing of line 188.
usb_instance_id_case_sensitive(r, ans) ==
  LET device_id == get_devnode_property(ans.id, "DEVPROP_TYPE_STRING")
      c1 == Append(r.calls,
                   Call("get_devnode_property", r.dev_node, "DEVPKEY_Device_InstanceId", device_id))
      u == cast_slice(device_id.val)
      ig == extract_int_token_value(u.val, IG_, r.overflow_checks)
      parent == get_dev_node_parent(r.dev_node, ans.parent)
      c2 == Append(c1, Call("get_dev_node_parent", r.dev_node, "", parent))
  IN IF device_id.kind = "Panic" THEN Goto(r, "panic", c1)
     ELSE IF device_id.kind = "None" THEN Goto(r, "returned", c1)
     ELSE IF u.kind = "Panic" \/ ig.kind = "Panic" THEN Goto(r, "panic", c1)
     ELSE IF ig.kind = "Some"
       THEN IF parent.kind = "None" THEN Goto(r, "returned", c2)
            ELSE [Goto(r, "usb_hardware_ids", c2) EXCEPT !.dev_node = parent.val]
     ELSE Goto(r, "usb_hardware_ids", c1)

\* Lines 186-195: the node's instance id, upper-cased; an IG_ value moves
\* the resolver to the parent node.
usb_instance_id(r, ans) ==
  LET device_id == get_devnode_property(ans.id, "DEVPROP_TYPE_STRING")
      c1 == Append(r.calls,
                   Call("get_devnode_property", r.dev_node, "DEVPKEY_Device_InstanceId", device_id))
      u == cast_slice(device_id.val)
      ig == extract_int_token_value(to_upper(u.val), IG_, r.overflow_checks)
      parent == get_dev_node_parent(r.dev_node, ans.parent)
      c2 == Append(c1, Call("get_dev_node_parent", r.dev_node, "", parent))
  IN IF device_id.kind = "Panic" THEN Goto(r, "panic", c1)
     ELSE IF device_id.kind = "None" THEN Goto(r, "returned", c1)
     ELSE IF u.kind = "Panic" \/ ig.kind = "Panic" THEN Goto(r, "panic", c1)
     ELSE IF ig.kind = "Some"
       THEN IF parent.kind = "None" THEN Goto(r, "returned", c2)
            ELSE [Goto(r, "usb_hardware_ids", c2) EXCEPT !.dev_node = parent.val]
     ELSE Goto(r, "usb_hardware_ids", c1)

\* Lines 203-215: the loop over the entries of the hardware-id list.
RECURSIVE scan_hardware_ids(_, _, _)
scan_hardware_ids(dev, ids, overflow_checks) ==
  IF ids = <<>> THEN Some(dev)
  ELSE LET hardware_id == to_upper(ids[1])
           rev == IF dev.release_number = 0
                    THEN extract_int_token_value(hardware_id, REV_, overflow_checks)
                    ELSE None
           d1 == IF rev.kind = "Some"
                   THEN [dev EXCEPT !.release_number = u32_as_u16(rev.val)]
                   ELSE dev
           mi == IF d1.interface_number = -1
                   THEN extract_int_token_value(hardware_id, MI_, overflow_checks)
                   ELSE None
           d2 == IF mi.kind = "Some"
                   THEN [d1 EXCEPT !.interface_number = u32_as_i32(mi.val)]
                   ELSE d1
       IN IF rev.kind = "Panic" THEN Panic
          ELSE IF mi.kind = "Panic" THEN Panic
          ELSE scan_hardware_ids(d2, Tail(ids), overflow_checks)

\* Lines 197-215: the hardware ids of the (possibly escalated) node.
usb_hardware_ids(r, ans) ==
  LET hardware_ids == get_devnode_property(ans.hw, "DEVPROP_TYPE_STRING_LIST")
      c1 == Append(r.calls,
                   Call("get_devnode_property", r.dev_node, "DEVPKEY_Device_HardwareIds",
                        hardware_ids))
      u == cast_slice(hardware_ids.val)
      scanned == scan_hardware_ids(r.dev, split(u.val, 0), r.overflow_checks)
  IN IF hardware_ids.kind = "Panic" THEN Goto(r, "panic", c1)
     ELSE IF hardware_ids.kind = "None" THEN Goto(r, "returned", c1)
     ELSE IF u.kind = "Panic" \/ scanned.kind = "Panic" THEN Goto(r, "panic", c1)
     ELSE [Goto(r, "usb_manufacturer", c1) EXCEPT !.dev = scanned.val]

\* Lines 217-222: the manufacturer property, when the string is still empty.
usb_manufacturer(r, ans) ==
  LET manufacturer_string == get_devnode_property(ans.manufacturer, "DEVPROP_TYPE_STRING")
      c1 == Append(r.calls,
                   Call("get_devnode_property", r.dev_node, "DEVPKEY_Device_Manufacturer",
                        manufacturer_string))
      u == cast_slice(manufacturer_string.val)
  IN IF ~is_unset(r.dev.manufacturer_string) THEN Goto(r, "usb_serial", r.calls)
     ELSE IF manufacturer_string.kind = "Panic" THEN Goto(r, "panic", c1)
     ELSE IF manufacturer_string.kind = "None" THEN Goto(r, "usb_serial", c1)
     ELSE IF u.kind = "Panic" THEN Goto(r, "panic", c1)
     ELSE [Goto(r, "usb_serial", c1)
             EXCEPT !.dev.manufacturer_string = u16str_to_wstring(u.val)]

\* rsplit(|c| *c != b'&').next(): what follows the last unit that is not an
\* ampersand, that is the trailing run of ampersands.
RECURSIVE trailing_ampersands(_)
trailing_ampersands(device_id) ==
  IF device_id = <<>> \/ device_id[Len(device_id)] # 38 THEN <<>>
  ELSE Append(trailing_ampersands(SubSeq(device_id, 1, Len(device_id) - 1)), 38)

\* iter().rposition(|c| *c != b'\\'): index (from 0) of the last unit of s
\* that is not a backslash.
rposition_not_backslash(s) ==
  LET hits == {i \in 0..(Len(s) - 1) : s[i + 1] # 92}
  IN IF hits = {} THEN None
     ELSE Some(CHOOSE i \in hits : \A j \in hits : j <= i)

\* Lines 241-246: the serial number taken from the instance id.
serial_from_instance_id(dev, device_id) ==
  LET start == rposition_not_backslash(trailing_ampersands(device_id))
  IN IF start.kind = "Some"
       THEN [dev EXCEPT !.serial_number =
               u16str_to_wstring(SubSeq(device_id, start.val + 2, Len(device_id)))]
       ELSE dev

\* Lines 224-248: the serial number, when the string is still empty.
usb_serial(r, ans) ==
  LET escalate == r.dev.interface_number # -1
      parent == get_dev_node_parent(r.dev_node, ans.parent)
      c1 == IF escalate
              THEN Append(r.calls, Call("get_dev_node_parent", r.dev_node, "", parent))
              ELSE r.calls
      usb_dev_node == IF escalate THEN parent.val ELSE r.dev_node
      device_id == get_devnode_property(ans.id, "DEVPROP_TYPE_STRING")
      c2 == Append(c1, Call("get_devnode_property", usb_dev_node, "DEVPKEY_Device_InstanceId",
                            device_id))
      u == cast_slice(device_id.val)
  IN IF ~is_unset(r.dev.serial_number) THEN Goto(r, "usb_default_interface", r.calls)
     ELSE IF escalate /\ parent.kind = "None" THEN Goto(r, "returned", c1)
     ELSE IF device_id.kind = "Panic" THEN Goto(r, "panic", c2)
     ELSE IF device_id.kind = "None" THEN Goto(r, "returned", c2)
     ELSE IF u.kind = "Panic" THEN Goto(r, "panic", c2)
     ELSE [Goto(r, "usb_default_interface", c2)
             EXCEPT !.dev = serial_from_instance_id(r.dev, u.val)]

\* Lines 250-254: the interface number defaults to 0.
usb_default_interface(r) ==
  [Goto(r, "returned", r.calls)
     EXCEPT !.dev.interface_number = IF @ = -1 THEN 0 ELSE @]

(***************************************************************************)
(* get_ble_info.                                                           *)
(***************************************************************************)
\* One field of get_ble_info: fetched.kind is Some, None or Panic.
ble_field(fetched) ==
  LET u == cast_slice(fetched.val)
  IN IF fetched.kind # "Some" THEN fetched
     ELSE IF u.kind = "Panic" THEN Panic
     ELSE Some(u16str_to_wstring(u.val))

\* Lines 262-269.
ble_manufacturer(r, ans) ==
  LET p == get_devnode_property(ans.manufacturer, "DEVPROP_TYPE_STRING")
      c1 == Append(r.calls,
                   Call("get_devnode_property", r.dev_node,
                        "PKEY_DeviceInterface_Bluetooth_Manufacturer", p))
      f == ble_field(p)
  IN IF ~is_unset(r.dev.manufacturer_string) THEN Goto(r, "ble_serial", r.calls)
     ELSE IF f.kind = "Panic" THEN Goto(r, "panic", c1)
     ELSE IF f.kind = "None" THEN Goto(r, "ble_serial", c1)
     ELSE [Goto(r, "ble_serial", c1) EXCEPT !.dev.manufacturer_string = f.val]

\* Lines 271-278.
ble_serial(r, ans) ==
  LET p == get_devnode_property(ans.address, "DEVPROP_TYPE_STRING")
      c1 == Append(r.calls,
                   Call("get_devnode_property", r.dev_node,
                        "PKEY_DeviceInterface_Bluetooth_DeviceAddress", p))
      f == ble_field(p)
  IN IF ~is_unset(r.dev.serial_number) THEN Goto(r, "ble_product", r.calls)
     ELSE IF f.kind = "Panic" THEN Goto(r, "panic", c1)
     ELSE IF f.kind = "None" THEN Goto(r, "ble_product", c1)
     ELSE [Goto(r, "ble_product", c1) EXCEPT !.dev.serial_number = f.val]

\* Lines 280-295: the model number, or else the parent's display name.
ble_product(r, ans) ==
  LET model == get_devnode_property(ans.model, "DEVPROP_TYPE_STRING")
      c1 == Append(r.calls,
                   Call("get_devnode_property", r.dev_node,
                        "PKEY_DeviceInterface_Bluetooth_ModelNumber", model))
      parent == get_dev_node_parent(r.dev_node, ans.parent)
      c2 == Append(c1, Call("get_dev_node_parent", r.dev_node, "", parent))
      name == get_devnode_property(ans.name, "DEVPROP_TYPE_STRING")
      c3 == Append(c2, Call("get_devnode_property", parent.val, "DEVPKEY_NAME", name))
      product_string ==
        IF model.kind # "None" THEN model
        ELSE IF parent.kind = "None" THEN None
        ELSE name
      c == IF model.kind # "None" THEN c1
           ELSE IF parent.kind = "None" THEN c2
           ELSE c3
      f == ble_field(product_string)
  IN IF ~is_unset(r.dev.product_string) THEN Goto(r, "returned", r.calls)
     ELSE IF f.kind = "Panic" THEN Goto(r, "panic", c)
     ELSE IF f.kind = "None" THEN Goto(r, "returned", c)
     ELSE [Goto(r, "returned", c) EXCEPT !.dev.product_string = f.val]

(***************************************************************************)
(* get_device_info as a whole: the steps above in the order of the code,   *)
(* each with the platform's answer to it taken from w.                     *)
(***************************************************************************)
resolver_step(r, w) ==
  CASE r.pc = "internal_locate" -> internal_locate(r, w.internal_locate)
    [] r.pc = "internal_classify" -> internal_classify(r, w.internal_classify)
    [] r.pc = "usb_instance_id" -> usb_instance_id(r, w.usb_instance_id)
    [] r.pc = "usb_hardware_ids" -> usb_hardware_ids(r, w.usb_hardware_ids)
    [] r.pc = "usb_manufacturer" -> usb_manufacturer(r, w.usb_manufacturer)
    [] r.pc = "usb_serial" -> usb_serial(r, w.usb_serial)
    [] r.pc = "usb_default_interface" -> usb_default_interface(r)
    [] r.pc = "ble_manufacturer" -> ble_manufacturer(r, w.ble_manufacturer)
    [] r.pc = "ble_serial" -> ble_serial(r, w.ble_serial)
    [] r.pc = "ble_product" -> ble_product(r, w.ble_product)

RECURSIVE run_resolver(_, _)
run_resolver(r, w) ==
  IF r.pc \in {"returned", "panic"} THEN r ELSE run_resolver(resolver_step(r, w), w)

NoDeviceInfo ==
  [path |-> <<>>, vendor_id |-> 0, product_id |-> 0, serial_number |-> WString(<<>>),
   release_number |-> 0, manufacturer_string |-> WString(<<>>),
   product_string |-> WString(<<>>), usage_page |-> 0, usage |-> 0,
   interface_number |-> -1, bus_type |-> "Unknown"]

get_device_info(path, w, checks) ==
  run_resolver(
    build_device_info([pc |-> "get_device_info", dev |-> NoDeviceInfo, dev_node |-> 0,
                       calls |-> <<>>, overflow_checks |-> checks],
                      path, w.get_device_info),
    w)

(***************************************************************************)
(* The platform's answers.                                                 *)
(***************************************************************************)
Text(lit) == le_bytes(U16(lit))

\* The property is there: the size call reports its type and length, the
\* fetch fills the buffer.
Present(bytes, type) ==
  [cr1 |-> "CR_BUFFER_SMALL", type1 |-> type, len1 |-> Len(bytes),
   cr2 |-> "CR_SUCCESS", len2 |-> Len(bytes), value |-> bytes]
\* The property is not there.
Absent ==
  [cr1 |-> "CR_NO_SUCH_VALUE", type1 |-> "DEVPROP_TYPE_EMPTY", len1 |-> 0,
   cr2 |-> "CR_NO_SUCH_VALUE", len2 |-> 0, value |-> <<>>]
\* It has another type than the one asked for.
WrongType(type) ==
  [Present(<<65, 0, 0, 0>>, type) EXCEPT
     !.type1 = IF type = "DEVPROP_TYPE_STRING" THEN "DEVPROP_TYPE_STRING_LIST"
               ELSE "DEVPROP_TYPE_STRING"]
\* It grew between the two calls: the fetch reports the new length.
Grew(type) ==
  [Present(<<0, 0, 0, 0>>, type) EXCEPT !.cr2 = "CR_BUFFER_SMALL", !.len2 = 6]
\* The fetch fails.
FetchFails(type) ==
  [Present(<<0, 0, 0, 0>>, type) EXCEPT !.cr2 = "CR_FAILURE"]
\* A value of an odd number of bytes.
OddLength(type) == Present(<<65, 0, 0>>, type)

PropertyAnswers(values, type) ==
  {Present(v, type) : v \in values}
    \cup {Absent, WrongType(type), Grew(type), FetchFails(type), OddLength(type)}

ParentAnswers == {"CR_SUCCESS", "CR_NO_SUCH_DEVNODE"}

\* HidD_GetSerialNumberString and friends: failure, a text, an undecodable text.
StringAnswers ==
  {[ok |-> FALSE, buf |-> <<>>],
   [ok |-> TRUE, buf |-> U16(<<"S", "NUL">>)],
   [ok |-> TRUE, buf |-> U16(<<"HS", "NUL">>)]}

AttribAnswers ==
  {[VendorID |-> 0, ProductID |-> 0, VersionNumber |-> 0],
   [VendorID |-> 1, ProductID |-> 2, VersionNumber |-> 256]}

CapsAnswers == {[UsagePage |-> 1, Usage |-> 6]}

FastPathAnswers ==
  [attrib : AttribAnswers, caps : CapsAnswers, serial : StringAnswers,
   manufacturer : StringAnswers, product : StringAnswers]

\* Interface paths: two well-formed ones and one that is not valid UTF-16.
PathA == U16(<<"A">>)
PathB == U16(<<"B">>)
PathBad == U16(<<"HS">>)
Paths == {PathA, PathB, PathBad}

InterfaceInstanceIds == {Text(<<"H", "\\", "A", "NUL">>)}

CompatibleIdLists ==
  {Text(<<"U", "S", "B", "\\", "C", "NUL", "NUL">>),
   Text(<<"u", "s", "b", "\\", "C", "NUL", "NUL">>),
   Text(<<"B", "T", "H", "E", "N", "U", "M", "\\", "C", "NUL", "NUL">>),
   Text(<<"B", "T", "H", "L", "E", "D", "E", "V", "I", "C", "E", "\\", "C", "NUL", "NUL">>),
   Text(<<"P", "N", "P", "0", "C", "5", "0", "NUL", "NUL">>),
   Text(<<"P", "N", "P", "0", "C", "5", "1", "NUL", "NUL">>),
   Text(<<"A", "C", "P", "I", "\\", "X", "NUL", "NUL">>),
   Text(<<"X", "NUL", "B", "T", "H", "E", "N", "U", "M", "NUL", "U", "S", "B", "NUL", "NUL">>),
   Text(<<"P", "N", "P", "NUL", "NUL">>),
   Text(<<"A", "C", "P", "I", "\\", "X">>)}

InstanceIds ==
  {Text(<<"U", "\\", "V", "&", "M", "I", "_", "0", "\\", "7", "&", "A", "NUL">>),
   Text(<<"U", "\\", "V", "\\", "S", "E", "R", "NUL">>),
   Text(<<"U", "\\", "V", "\\", "S", "E", "R">>),
   Text(<<"U", "\\", "V", "&", "i", "g", "_", "0", "\\", "S", "&">>),
   Text(<<"U", "\\", "V", "&", "I", "G", "_", "\\", "S", "NUL">>),
   Text(<<"I", "G", "_", "1", "0", "0", "0", "0", "0", "0", "0", "0">>)}

HardwareIdLists ==
  {Text(<<"V", "&", "R", "E", "V", "_", "0", "1", "0", "0", "&", "M", "I", "_", "0", "1", "NUL",
          "V", "&", "R", "E", "V", "_", "0", "2", "0", "0", "&", "M", "I", "_", "0", "2", "NUL",
          "NUL">>),
   Text(<<"V", "&", "R", "E", "V", "_", "0", "0", "0", "0", "NUL",
          "V", "&", "R", "E", "V", "_", "0", "1", "0", "0", "NUL", "NUL">>),
   Text(<<"M", "I", "_", "F", "F", "F", "F", "F", "F", "F", "F", "NUL",
          "M", "I", "_", "0", "2", "NUL", "NUL">>),
   Text(<<"v", "&", "r", "e", "v", "_", "1", "f", "&", "m", "i", "_", "0", "a", "NUL", "NUL">>),
   Text(<<"U", "\\", "V", "NUL", "NUL">>),
   Text(<<"M", "I", "_", "1", "0", "0", "0", "0", "0", "0", "0", "0", "NUL", "NUL">>)}

Manufacturers == {Text(<<"M", "NUL">>)}
BleManufacturers == {Text(<<"B", "M", "NUL">>)}
BleAddresses == {Text(<<"A", "D", "NUL">>), Text(<<"HS", "NUL">>)}
BleModelNumbers == {Text(<<"M", "O", "NUL">>)}
DisplayNames == {Text(<<"N", "A", "NUL">>)}

LocateAnswers ==
  [id : PropertyAnswers(InterfaceInstanceIds, "DEVPROP_TYPE_STRING"),
   cr : {"CR_SUCCESS", "CR_NO_SUCH_DEVNODE"}, parent : ParentAnswers]
ClassifyAnswers ==
  [compat : PropertyAnswers(CompatibleIdLists, "DEVPROP_TYPE_STRING_LIST")]
UsbInstanceIdAnswers ==
  [id : PropertyAnswers(InstanceIds, "DEVPROP_TYPE_STRING"), parent : ParentAnswers]
UsbHardwareIdsAnswers ==
  [hw : PropertyAnswers(HardwareIdLists, "DEVPROP_TYPE_STRING_LIST")]
UsbManufacturerAnswers ==
  [manufacturer : PropertyAnswers(Manufacturers, "DEVPROP_TYPE_STRING")]
UsbSerialAnswers ==
  [parent : ParentAnswers, id : PropertyAnswers(InstanceIds, "DEVPROP_TYPE_STRING")]
BleManufacturerAnswers ==
  [manufacturer : PropertyAnswers(BleManufacturers, "DEVPROP_TYPE_STRING")]
BleSerialAnswers ==
  [address : PropertyAnswers(BleAddresses, "DEVPROP_TYPE_STRING")]
BleProductAnswers ==
  [model : PropertyAnswers(BleModelNumbers, "DEVPROP_TYPE_STRING"),
   parent : ParentAnswers,
   name : PropertyAnswers(DisplayNames, "DEVPROP_TYPE_STRING")]

(***************************************************************************)
(* State.                                                                  *)
(***************************************************************************)
VARIABLES
  \* Resolution of one device record (get_device_info and its callees).
  pc,               \* position in get_device_info
  dev,              \* the DeviceInfo under construction
  dev_node,         \* the current device-tree node
  calls,            \* the calls made so far, with their results
  fast_path,        \* dev as get_device_info built it (lines 124-136)
  overflow_checks,  \* the build checks arithmetic overflow (debug) or wraps
  \* The enumeration pass (get_hid_device_info_vector).
  epc,                    \* position in get_hid_device_info_vector
  device_interface_list,  \* the buffer of get_interface_list
  retries,                \* size/fetch cycles that reported buffer-too-small
  list_calls,             \* the size/fetch cycles made so far, with their answers
  piece,                  \* index of the current piece of the split list
  open_handles,           \* the device handles open (by piece index)
  opened,                 \* the pieces whose open succeeded, in order
  device_vector,          \* the records pushed so far
  \* One call of a helper function.
  fn_call                 \* the function called, its arguments and what it did

res_vars == <<pc, dev, dev_node, calls, fast_path>>
enum_vars == <<epc, device_interface_list, retries, list_calls, piece, open_handles, opened, device_vector>>
vars == <<pc, dev, dev_node, calls, fast_path, overflow_checks,
          epc, device_interface_list, retries, list_calls, piece, open_handles, opened,
          device_vector, fn_call>>

Init ==
  /\ pc = "get_device_info"
  /\ dev = NoDeviceInfo
  /\ dev_node = 0
  /\ calls = <<>>
  /\ fast_path = NoDeviceInfo
  /\ overflow_checks \in BOOLEAN
  /\ epc = "get_interface_list"
  /\ device_interface_list = <<>>
  /\ retries = 0
  /\ list_calls = <<>>
  /\ piece = 1
  /\ open_handles = {}
  /\ opened = <<>>
  /\ device_vector = <<>>
  /\ fn_call = [fn |-> "none"]

(***************************************************************************)
(* Resolution of one record, step by step.                                 *)
(***************************************************************************)
Cur ==
  [pc |-> pc, dev |-> dev, dev_node |-> dev_node, calls |-> calls,
   overflow_checks |-> overflow_checks]

Apply(r) ==
  /\ pc' = r.pc
  /\ dev' = r.dev
  /\ dev_node' = r.dev_node
  /\ calls' = r.calls
  /\ UNCHANGED <<overflow_checks, enum_vars, fn_call>>

GetDeviceInfo ==
  /\ pc = "get_device_info"
  /\ \E path \in {PathA, PathBad}, ans \in FastPathAnswers :
       /\ Apply(build_device_info(Cur, path, ans))
       /\ fast_path' = dev'

InternalLocate ==
  /\ pc = "internal_locate"
  /\ \E ans \in LocateAnswers : Apply(internal_locate(Cur, ans))
  /\ UNCHANGED fast_path

InternalClassify ==
  /\ pc = "internal_classify"
  /\ \E ans \in ClassifyAnswers : Apply(internal_classify(Cur, ans))
  /\ UNCHANGED fast_path

UsbInstanceId ==
  /\ pc = "usb_instance_id"
  /\ \E ans \in UsbInstanceIdAnswers : Apply(usb_instance_id(Cur, ans))
  /\ UNCHANGED fast_path

UsbHardwareIds ==
  /\ pc = "usb_hardware_ids"
  /\ \E ans \in UsbHardwareIdsAnswers : Apply(usb_hardware_ids(Cur, ans))
  /\ UNCHANGED fast_path

UsbManufacturer ==
  /\ pc = "usb_manufacturer"
  /\ \E ans \in UsbManufacturerAnswers : Apply(usb_manufacturer(Cur, ans))
  /\ UNCHANGED fast_path

UsbSerial ==
  /\ pc = "usb_serial"
  /\ \E ans \in UsbSerialAnswers : Apply(usb_serial(Cur, ans))
  /\ UNCHANGED fast_path

UsbDefaultInterface ==
  /\ pc = "usb_default_interface"
  /\ Apply(usb_default_interface(Cur))
  /\ UNCHANGED fast_path

BleManufacturer ==
  /\ pc = "ble_manufacturer"
  /\ \E ans \in BleManufacturerAnswers : Apply(ble_manufacturer(Cur, ans))
  /\ UNCHANGED fast_path

BleSerial ==
  /\ pc = "ble_serial"
  /\ \E ans \in BleSerialAnswers : Apply(ble_serial(Cur, ans))
  /\ UNCHANGED fast_path

BleProduct ==
  /\ pc = "ble_product"
  /\ \E ans \in BleProductAnswers : Apply(ble_product(Cur, ans))
  /\ UNCHANGED fast_path

Next ==
  \/ GetDeviceInfo
  \/ InternalLocate
  \/ InternalClassify
  \/ UsbInstanceId
  \/ UsbHardwareIds
  \/ UsbManufacturer
  \/ UsbSerial
  \/ UsbDefaultInterface
  \/ BleManufacturer
  \/ BleSerial
  \/ BleProduct

Spec == Init /\ [][Next]_vars

(***************************************************************************)
(* The enumeration pass, get_hid_device_info_vector.                       *)
(***************************************************************************)
\* The lists the platform may hold: up to MaxInterfaces paths, each ended
\* by a NUL, and the NUL that ends the list.
RECURSIVE ListsOf(_)
ListsOf(n) ==
  IF n = 0 THEN {<<0>>}
  ELSE {p \o <<0>> \o l : p \in Paths, l \in ListsOf(n - 1)}

InterfaceLists == UNION {ListsOf(n) : n \in 0..MaxInterfaces}

\* Vec::resize(len, 0)
resize(v, len) ==
  [i \in 1..len |-> IF i <= Len(v) THEN v[i] ELSE 0]

\* The devices behind the interfaces: a USB interface of a composite device,
\* a Bluetooth LE device, a device whose interface has no instance id, and
\* one whose instance id grows between the two calls of the fetch.
UsbWorld ==
  [get_device_info |->
     [attrib |-> [VendorID |-> 1, ProductID |-> 2, VersionNumber |-> 0],
      caps |-> [UsagePage |-> 1, Usage |-> 6],
      serial |-> [ok |-> FALSE, buf |-> <<>>],
      manufacturer |-> [ok |-> TRUE, buf |-> U16(<<"S", "NUL">>)],
      product |-> [ok |-> TRUE, buf |-> U16(<<"S", "NUL">>)]],
   internal_locate |->
     [id |-> Present(Text(<<"H", "\\", "A", "NUL">>), "DEVPROP_TYPE_STRING"),
      cr |-> "CR_SUCCESS", parent |-> "CR_SUCCESS"],
   internal_classify |->
     [compat |-> Present(Text(<<"U", "S", "B", "\\", "C", "NUL", "NUL">>),
                         "DEVPROP_TYPE_STRING_LIST")],
   usb_instance_id |->
     [id |-> Present(Text(<<"U", "\\", "V", "&", "M", "I", "_", "0", "\\", "7", "&", "A", "NUL">>),
                     "DEVPROP_TYPE_STRING"),
      parent |-> "CR_SUCCESS"],
   usb_hardware_ids |->
     [hw |-> Present(Text(<<"V", "&", "R", "E", "V", "_", "0", "1", "0", "0", "&",
                            "M", "I", "_", "0", "1", "NUL", "NUL">>),
                     "DEVPROP_TYPE_STRING_LIST")],
   usb_manufacturer |-> [manufacturer |-> Absent],
   usb_serial |->
     [parent |-> "CR_SUCCESS",
      id |-> Present(Text(<<"U", "\\", "V", "\\", "S", "E", "R", "NUL">>),
                     "DEVPROP_TYPE_STRING")],
   ble_manufacturer |-> [manufacturer |-> Absent],
   ble_serial |-> [address |-> Absent],
   ble_product |-> [model |-> Absent, parent |-> "CR_NO_SUCH_DEVNODE", name |-> Absent]]

BleWorld ==
  [UsbWorld EXCEPT
     !.get_device_info.manufacturer = [ok |-> FALSE, buf |-> <<>>],
     !.get_device_info.product = [ok |-> FALSE, buf |-> <<>>],
     !.internal_classify =
        [compat |-> Present(Text(<<"B", "T", "H", "L", "E", "D", "E", "V", "I", "C", "E",
                                   "NUL", "NUL">>),
                            "DEVPROP_TYPE_STRING_LIST")],
     !.ble_manufacturer =
        [manufacturer |-> Present(Text(<<"B", "M", "NUL">>), "DEVPROP_TYPE_STRING")],
     !.ble_serial = [address |-> Present(Text(<<"A", "D", "NUL">>), "DEVPROP_TYPE_STRING")],
     !.ble_product =
        [model |-> Absent, parent |-> "CR_SUCCESS",
         name |-> Present(Text(<<"N", "A", "NUL">>), "DEVPROP_TYPE_STRING")]]

BareWorld == [UsbWorld EXCEPT !.internal_locate.id = Absent]

FaultyWorld == [UsbWorld EXCEPT !.internal_locate.id = Grew("DEVPROP_TYPE_STRING")]

Worlds == {UsbWorld, BleWorld, BareWorld, FaultyWorld}

\* The pieces of device_interface_list.split(|c| *c == 0).
Pieces == split(device_interface_list, 0)

\* Where piece j starts in the buffer (from 0): as_ptr() of the piece.
RECURSIVE piece_offset(_, _)
piece_offset(pieces, j) ==
  IF j = 1 THEN 0 ELSE piece_offset(pieces, j - 1) + Len(pieces[j - 1]) + 1

\* CreateFileW on the piece's pointer.  A piece of the list is a path the
\* platform opens or refuses.  An empty piece inside the buffer points at a
\* NUL, the empty path, which the platform refuses.  The empty piece after
\* the last NUL points one past the end of the buffer: the read is out of
\* bounds, and what is opened, if anything, is not determined.
OpenOutcomes(pieces, j) ==
  IF pieces[j] # <<>> THEN BOOLEAN
  ELSE IF piece_offset(pieces, j) < Len(device_interface_list) THEN {FALSE}
  ELSE BOOLEAN

\* The cycle leaving the loop on any answer of the fetch but failure, where
\* line 63 leaves it on CR_SUCCESS only.
interface_list_cycle_breaks_on_small(list, cr_size, len, actual, fetch_fails) ==
  LET resized == resize(list, len)
      cr == IF fetch_fails THEN "CR_FAILURE"
            ELSE IF Len(actual) > len THEN "CR_BUFFER_SMALL"
            ELSE "CR_SUCCESS"
      filled == [i \in 1..len |-> IF i <= Len(actual) THEN actual[i] ELSE resized[i]]
  IN IF cr_size # "CR_SUCCESS"
       THEN [epc |-> "panic", list |-> list,
             call |-> [cr_size |-> cr_size, len |-> len, cr |-> "", buffer |-> list]]
     ELSE IF cr = "CR_FAILURE"
       THEN [epc |-> "panic", list |-> resized,
             call |-> [cr_size |-> cr_size, len |-> len, cr |-> cr, buffer |-> resized]]
     ELSE IF cr = "CR_SUCCESS"
       THEN [epc |-> "iterate", list |-> filled,
             call |-> [cr_size |-> cr_size, len |-> len, cr |-> cr, buffer |-> filled]]
     ELSE [epc |-> "iterate", list |-> resized,
           call |-> [cr_size |-> cr_size, len |-> len, cr |-> cr, buffer |-> resized]]

\* Lines 43-65: one cycle of the loop of get_interface_list on the buffer
\* `list`.  The size query answers cr_size and len; the fetch finds the list
\* `actual` and answers CR_SUCCESS when it fits the buffer.
interface_list_cycle(list, cr_size, len, actual, fetch_fails) ==
  LET resized == resize(list, len)
      cr == IF fetch_fails THEN "CR_FAILURE"
            ELSE IF Len(actual) > len THEN "CR_BUFFER_SMALL"
            ELSE "CR_SUCCESS"
      filled == [i \in 1..len |-> IF i <= Len(actual) THEN actual[i] ELSE resized[i]]
  IN IF cr_size # "CR_SUCCESS"
       THEN [epc |-> "panic", list |-> list,
             call |-> [cr_size |-> cr_size, len |-> len, cr |-> "", buffer |-> list]]
     ELSE IF cr = "CR_FAILURE"
       THEN [epc |-> "panic", list |-> resized,
             call |-> [cr_size |-> cr_size, len |-> len, cr |-> cr, buffer |-> resized]]
     ELSE IF cr = "CR_SUCCESS"
       THEN [epc |-> "iterate", list |-> filled,
             call |-> [cr_size |-> cr_size, len |-> len, cr |-> cr, buffer |-> filled]]
     ELSE [epc |-> "get_interface_list", list |-> resized,
           call |-> [cr_size |-> cr_size, len |-> len, cr |-> cr, buffer |-> resized]]

\* Lines 34-68: get_interface_list, one cycle per step.  The platform answers
\* buffer-too-small at most MaxRetries times in a row.
GetInterfaceList ==
  /\ epc = "get_interface_list"
  /\ \E cr_size \in {"CR_SUCCESS", "CR_FAILURE"},
        len \in {Len(l) : l \in InterfaceLists},
        actual \in InterfaceLists,
        fetch_fails \in BOOLEAN :
       LET c == interface_list_cycle(device_interface_list, cr_size, len, actual, fetch_fails)
       IN /\ c.call.cr = "CR_BUFFER_SMALL" => retries < MaxRetries
          /\ epc' = c.epc
          /\ device_interface_list' = c.list
          /\ retries' = IF c.call.cr = "CR_BUFFER_SMALL" THEN retries + 1 ELSE retries
          /\ list_calls' = Append(list_calls, c.call)
  /\ UNCHANGED <<piece, open_handles, opened, device_vector, res_vars, overflow_checks, fn_call>>

\* Line 306: open_device on the next piece.
OpenDevice ==
  /\ epc = "iterate"
  /\ piece <= Len(Pieces)
  /\ \E ok \in OpenOutcomes(Pieces, piece) :
       IF ok
         THEN /\ open_handles' = open_handles \cup {piece}
              /\ opened' = Append(opened, piece)
              /\ epc' = "opened"
              /\ UNCHANGED piece
         ELSE /\ piece' = piece + 1
              /\ UNCHANGED <<open_handles, opened, epc>>
  /\ UNCHANGED <<device_interface_list, retries, list_calls, device_vector, res_vars, overflow_checks, fn_call>>

\* Line 307: device_vector.push(get_device_info(device_interface, device_handle)).
PushDeviceInfo ==
  /\ epc = "opened"
  /\ \E w \in Worlds :
       LET r == get_device_info(Pieces[piece], w, overflow_checks)
       IN IF r.pc = "panic"
            THEN epc' = "panic" /\ UNCHANGED device_vector
            ELSE epc' = "close" /\ device_vector' = Append(device_vector, r.dev)
  /\ UNCHANGED <<device_interface_list, retries, list_calls, piece, open_handles, opened,
                 res_vars, overflow_checks, fn_call>>

\* Line 309: CloseHandle(device_handle), and on to the next piece.
CloseDevice ==
  /\ epc = "close"
  /\ open_handles' = open_handles \ {piece}
  /\ piece' = piece + 1
  /\ epc' = "iterate"
  /\ UNCHANGED <<device_interface_list, retries, list_calls, opened, device_vector,
                 res_vars, overflow_checks, fn_call>>

\* Line 314: Ok(device_vector).
ReturnVector ==
  /\ epc = "iterate"
  /\ piece > Len(Pieces)
  /\ epc' = "done"
  /\ UNCHANGED <<device_interface_list, retries, list_calls, piece, open_handles, opened,
                 device_vector, res_vars, overflow_checks, fn_call>>

EnumNext ==
  \/ GetInterfaceList
  \/ OpenDevice
  \/ PushDeviceInfo
  \/ CloseDevice
  \/ ReturnVector

EnumSpec == Init /\ [][EnumNext]_vars

\* get_interface_list alone; the loop keeps running while it can.
ListSpec == Init /\ [][GetInterfaceList]_vars /\ WF_vars(GetInterfaceList)

(***************************************************************************)
(* The helper functions, each called once on arguments of its own.         *)
(***************************************************************************)
\* What the platform can answer to the two calls of a property fetch.
PropertyResponses ==
  {[cr1 |-> cr1, type1 |-> type1, len1 |-> len1, cr2 |-> cr2, len2 |-> len2,
    value |-> [i \in 1..len1 |-> 65 * (i % 2)]] :
     cr1 \in {"CR_SUCCESS", "CR_BUFFER_SMALL", "CR_NO_SUCH_VALUE"},
     type1 \in {"DEVPROP_TYPE_STRING", "DEVPROP_TYPE_STRING_LIST", "DEVPROP_TYPE_EMPTY"},
     len1 \in {0, 2},
     cr2 \in {"CR_SUCCESS", "CR_BUFFER_SMALL", "CR_FAILURE"},
     len2 \in {0, 2, 4}}

ExpectedTypes == {"DEVPROP_TYPE_STRING", "DEVPROP_TYPE_STRING_LIST"}

Haystacks ==
  {<<>>,
   U16(<<"U">>),
   U16(<<"U", "S">>),
   U16(<<"U", "S", "B">>),
   U16(<<"U", "S", "A">>),
   U16(<<"u", "S", "b", "X">>),
   U16(<<"u", "s", "b", "\\", "V", "I", "D", "_", "1", "2", "3", "4">>),
   U16(<<"P", "N", "P", "0", "C", "5">>),
   U16(<<"p", "n", "p", "0", "c", "5", "1">>),
   U16(<<"B", "T", "H", "L", "E">>),
   U16(<<"HS", "S", "B">>)}

Patterns == {USB, U16(<<"U", "S", "B", "X">>), PNP0C50, PNP0C51, BTHLEDEVICE}

TokenStrings ==
  {<<>>,
   U16(<<"M", "I">>),
   U16(<<"M", "I", "_">>),
   U16(<<"M", "I", "_", "0", "2">>),
   U16(<<"M", "I", "_", "1", "F">>),
   U16(<<"M", "I", "_", "1", "f">>),
   U16(<<"M", "I", "_", "0", "G">>),
   U16(<<"m", "i", "_", "0", "2">>),
   U16(<<"X", "M", "I", "_", "0", "3", "&", "M", "I", "_", "0", "4">>),
   U16(<<"M", "I", "_", "G", "&", "M", "I", "_", "0", "5">>),
   U16(<<"R", "E", "V", "_", "0", "1", "0", "0", "&", "M", "I", "_", "0", "1">>),
   U16(<<"R", "E", "V", "_", "HS", "1">>),
   U16(<<"M", "I", "_", "F", "F", "F", "F", "F", "F", "F", "F">>),
   U16(<<"M", "I", "_", "1", "0", "0", "0", "0", "0", "0", "0", "0">>),
   U16(<<"R", "E", "V", "_", "1", "2", "3", "4", "5", "6", "7", "8", "9">>)}

Tokens == {MI_, REV_, IG_}

FnFrame == UNCHANGED <<res_vars, enum_vars, overflow_checks>>

CallGetDeviceInterfaceProperty ==
  /\ fn_call.fn = "none"
  /\ \E resp \in PropertyResponses, expected \in ExpectedTypes :
       fn_call' = [fn |-> "get_device_interface_property",
                   args |-> <<resp, expected>>,
                   platform_calls |->
                     get_device_interface_property_run(resp, expected).platform_calls,
                   result |-> get_device_interface_property(resp, expected)]
  /\ FnFrame

CallGetDevnodeProperty ==
  /\ fn_call.fn = "none"
  /\ \E resp \in PropertyResponses, expected \in ExpectedTypes :
       fn_call' = [fn |-> "get_devnode_property",
                   args |-> <<resp, expected>>,
                   platform_calls |-> get_devnode_property_run(resp, expected).platform_calls,
                   result |-> get_devnode_property(resp, expected)]
  /\ FnFrame

CallStartsWithIgnoreCase ==
  /\ fn_call.fn = "none"
  /\ \E utf16str \in Haystacks, pattern \in Patterns :
       fn_call' = [fn |-> "starts_with_ignore_case",
                   args |-> <<utf16str, pattern>>,
                   platform_calls |-> <<>>,
                   result |-> starts_with_ignore_case(utf16str, pattern)]
  /\ FnFrame

CallExtractIntTokenValue ==
  /\ fn_call.fn = "none"
  /\ \E u16str \in TokenStrings, token \in Tokens :
       fn_call' = [fn |-> "extract_int_token_value",
                   args |-> <<u16str, token>>,
                   platform_calls |-> <<>>,
                   result |-> extract_int_token_value(u16str, token, overflow_checks)]
  /\ FnFrame

FnNext ==
  \/ CallGetDeviceInterfaceProperty
  \/ CallGetDevnodeProperty
  \/ CallStartsWithIgnoreCase
  \/ CallExtractIntTokenValue

FnSpec == Init /\ [][FnNext]_vars

(***************************************************************************)
(* Reading the log of calls.                                               *)
(***************************************************************************)
Invoked(op) == \E i \in 1..Len(calls) : calls[i].op = op

\* The indices of the fetches of a devnode property, in call order.
FetchesOf(key) ==
  {i \in 1..Len(calls) : calls[i].op = "get_devnode_property" /\ calls[i].key = key}

FirstOf(S) == CHOOSE i \in S : \A j \in S : i <= j
LastOf(S) == CHOOSE i \in S : \A j \in S : j <= i

\* The code units a fetch returned (the fetch returned a value of even length).
Units(i) == cast_slice(calls[i].res.val).val
Fetched(i) == calls[i].res.kind = "Some" /\ Len(calls[i].res.val) % 2 = 0

\* An entry begins with a prefix: it is at least as long, and its first
\* characters equal the prefix ignoring ASCII case.
BeginsWith(entry, prefix) ==
  /\ Len(entry) >= Len(prefix)
  /\ \A i \in 1..Len(prefix) : eq_ignore_ascii_case(entry[i], prefix[i])

\* The table of section 4.5 of the specification.
TableClass(entry) ==
  IF BeginsWith(entry, USB) THEN "Usb"
  ELSE IF BeginsWith(entry, BTHENUM) THEN "Bluetooth"
  ELSE IF BeginsWith(entry, BTHLEDEVICE) THEN "BluetoothLE"
  ELSE IF BeginsWith(entry, PNP0C50) THEN "I2c"
  ELSE IF BeginsWith(entry, PNP0C51) THEN "Spi"
  ELSE "Unknown"

FirstMatchClass(ids) ==
  LET entries == split(ids, 0)
      hits == {i \in 1..Len(entries) : TableClass(entries[i]) # "Unknown"}
  IN IF hits = {} THEN "Unknown" ELSE TableClass(entries[FirstOf(hits)])

(***************************************************************************)
(* C1.  When the compatible-id property is absent, or no entry of the list *)
(* (the empty entries of the terminators included) begins with USB,        *)
(* BTHENUM, BTHLEDEVICE, PNP0C50 or PNP0C51, the record's bus type is      *)
(* Unknown and neither get_usb_info nor get_ble_info is invoked.           *)
(***************************************************************************)
C1_UnknownWithoutPrefix ==
  \A i \in FetchesOf("DEVPKEY_Device_CompatibleIds") :
    (calls[i].res.kind = "None"
       \/ (Fetched(i) /\ FirstMatchClass(Units(i)) = "Unknown"))
    => /\ dev.bus_type = "Unknown"
       /\ ~Invoked("get_usb_info")
       /\ ~Invoked("get_ble_info")

(***************************************************************************)
(* C2.  The bus type written to the record is the table class of the first *)
(* entry, in list order, that begins with a table prefix ignoring case; a  *)
(* BTHLEDEVICE node yields BluetoothLE, which is not Bluetooth.            *)
(***************************************************************************)
C2_FirstMatchingEntryClass ==
  \A i \in FetchesOf("DEVPKEY_Device_CompatibleIds") :
    Fetched(i) => dev.bus_type = FirstMatchClass(Units(i))

(***************************************************************************)
(* C3.  After the scan of the hardware-id list, release_number (when the   *)
(* fast path left it 0) is the REV_ value of the first entry that has one, *)
(* and interface_number is the MI_ value of the first entry that has one,  *)
(* whatever these values are.                                              *)
(***************************************************************************)
TokenValue(entry, token) == extract_int_token_value(to_upper(entry), token, FALSE)

\* The value of the first entry of the list that holds token<hex>.
FirstTokenValue(ids, token) ==
  LET entries == split(ids, 0)
      hits == {i \in 1..Len(entries) : TokenValue(entries[i], token).kind = "Some"}
  IN IF hits = {} THEN None ELSE TokenValue(entries[FirstOf(hits)], token)

C3_FirstEntryWins ==
  pc = "usb_manufacturer" =>
    LET hw == Units(LastOf(FetchesOf("DEVPKEY_Device_HardwareIds")))
        rev == FirstTokenValue(hw, REV_)
        mi == FirstTokenValue(hw, MI_)
    IN /\ (fast_path.release_number = 0 /\ rev.kind = "Some")
            => dev.release_number = u32_as_u16(rev.val)
       /\ mi.kind = "Some" => dev.interface_number = u32_as_i32(mi.val)

(***************************************************************************)
(* C4.  A manufacturer string the fast path left non-empty, as text or as  *)
(* raw code units, is the record's manufacturer string ever after; the     *)
(* same for the serial number, and for the product string.                 *)
(***************************************************************************)
C4_NonClobber ==
  pc # "get_device_info" =>
    /\ fast_path.manufacturer_string.val # <<>>
         => dev.manufacturer_string = fast_path.manufacturer_string
    /\ fast_path.serial_number.val # <<>>
         => dev.serial_number = fast_path.serial_number
    /\ fast_path.product_string.val # <<>>
         => dev.product_string = fast_path.product_string

(***************************************************************************)
(* C5.  The record returned for a device classified as USB never has       *)
(* interface_number -1, on any path through get_usb_info: it is the MI_    *)
(* value when the hardware-id list holds one, and 0 otherwise.             *)
(***************************************************************************)
C5_UsbInterfaceNumberResolved ==
  (pc = "returned" /\ Invoked("get_usb_info")) =>
    LET hws == {i \in FetchesOf("DEVPKEY_Device_HardwareIds") : Fetched(i)}
        mi == IF hws = {} THEN None ELSE FirstTokenValue(Units(LastOf(hws)), MI_)
    IN /\ dev.interface_number # -1
       /\ dev.interface_number = IF mi.kind = "Some" THEN u32_as_i32(mi.val) ELSE 0

(***************************************************************************)
(* C6.  A step of get_usb_info that fails does not keep the later steps    *)
(* from running: once the resolver has returned, the hardware ids have     *)
(* been asked for, and, when the fast path left the manufacturer empty,    *)
(* the manufacturer property too, also when the hardware ids are absent.   *)
(***************************************************************************)
C6_StepsIndependentlySkippable ==
  (pc = "returned" /\ Invoked("get_usb_info")) =>
    /\ FetchesOf("DEVPKEY_Device_HardwareIds") # {}
    /\ fast_path.manufacturer_string.val = <<>>
         => FetchesOf("DEVPKEY_Device_Manufacturer") # {}

(***************************************************************************)
(* C7.  When the fast path left the serial number empty and get_usb_info   *)
(* has fetched the instance id for it: if the segment after the last       *)
(* backslash holds no ampersand the serial number is that segment, else    *)
(* it is unchanged.  The instance id is that of the node, or of its parent *)
(* when an interface number was found.                                     *)
(***************************************************************************)
\* The text of a fetched string: what precedes its terminating NUL.
TextOf(units) == split(units, 0)[1]

LastSegment(text) ==
  LET slashes == {i \in 1..Len(text) : text[i] = 92}
  IN IF slashes = {} THEN text ELSE SubSeq(text, LastOf(slashes) + 1, Len(text))

C7_SerialFromInstanceId ==
  (pc = "usb_default_interface" /\ fast_path.serial_number.val = <<>>) =>
    LET i == LastOf(FetchesOf("DEVPKEY_Device_InstanceId"))
        segment == LastSegment(TextOf(Units(i)))
    IN /\ calls[i].node = IF dev.interface_number # -1 THEN dev_node + 1 ELSE dev_node
       /\ dev.serial_number =
            IF \E k \in 1..Len(segment) : segment[k] = 38
              THEN fast_path.serial_number
              ELSE u16str_to_wstring(segment)

(***************************************************************************)
(* C8.  In get_usb_info the instance id of the node, upper-cased, decides  *)
(* the escalation: when it holds an IG_ token (IG_ followed at once by a   *)
(* hexadecimal digit, at the first IG_) exactly one parent lookup has been *)
(* made when the hardware ids are fetched and they are fetched from the    *)
(* parent; otherwise no parent lookup is made at this step and they are    *)
(* fetched from the node itself.                                           *)
(***************************************************************************)
IsHexDigit(c) == c \in (48..57) \cup (65..70) \cup (97..102)

\* The first occurrence of the token in s is followed by a hexadecimal digit.
HasHexToken(s, token) ==
  LET n == Len(token)
      at == {i \in 1..(Len(s) - n + 1) : SubSeq(s, i, i + n - 1) = token}
  IN /\ at # {}
     /\ FirstOf(at) + n <= Len(s)
     /\ IsHexDigit(s[FirstOf(at) + n])

UpperCased(s) == [i \in 1..Len(s) |-> IF s[i] \in 97..122 THEN s[i] - 32 ELSE s[i]]

\* Where get_usb_info was entered, and the node it was entered with.
UsbEntry == FirstOf({i \in 1..Len(calls) : calls[i].op = "get_usb_info"})

\* The parent lookups of get_usb_info made before index `until` of the log.
EscalationsBefore(until) ==
  Cardinality({i \in (UsbEntry + 1)..(until - 1) : calls[i].op = "get_dev_node_parent"})

C8_EscalatesOnceOnIgToken ==
  (Invoked("get_usb_info") /\ Len(calls) > UsbEntry /\ Fetched(UsbEntry + 1)) =>
    LET node == calls[UsbEntry].node
        ig == HasHexToken(UpperCased(Units(UsbEntry + 1)), IG_)
        hws == FetchesOf("DEVPKEY_Device_HardwareIds")
    IN IF hws = {}
         THEN EscalationsBefore(Len(calls) + 1) <= IF ig THEN 1 ELSE 0
         ELSE /\ EscalationsBefore(FirstOf(hws)) = IF ig THEN 1 ELSE 0
              /\ calls[FirstOf(hws)].node = IF ig THEN node + 1 ELSE node
              /\ dev_node = calls[FirstOf(hws)].node

\* A node whose instance id holds ig_0 in lower case has escalated, and its
\* hardware ids have been fetched from the parent.
C8_Witness ==
  /\ Invoked("get_usb_info")
  /\ FetchesOf("DEVPKEY_Device_HardwareIds") # {}
  /\ Fetched(UsbEntry + 1)
  /\ HasHexToken(UpperCased(Units(UsbEntry + 1)), IG_)
  /\ ~HasHexToken(Units(UsbEntry + 1), IG_)
  /\ calls[FirstOf(FetchesOf("DEVPKEY_Device_HardwareIds"))].node = calls[UsbEntry].node + 1

(***************************************************************************)
(* C9.  get_hid_device_info_vector is not stopped by an individual         *)
(* interface, and the list it returns holds exactly one record for each    *)
(* interface path whose open succeeded, in order; with no interfaces the   *)
(* list is empty.                                                          *)
(***************************************************************************)
\* The pieces that are interface paths, and those of them that were opened.
RECURSIVE OpenedPaths(_, _)
OpenedPaths(pieces, os) ==
  IF os = <<>> THEN <<>>
  ELSE IF pieces[os[1]] # <<>>
    THEN <<path_to_cstring(pieces[os[1]]).val>> \o OpenedPaths(pieces, Tail(os))
    ELSE OpenedPaths(pieces, Tail(os))

\* The pass was aborted while an opened interface was being resolved.
AbortedOnInterface == epc = "panic" /\ Len(opened) > Len(device_vector)

C9_OneRecordPerOpenedInterface ==
  /\ ~AbortedOnInterface
  /\ epc = "done" =>
       [i \in 1..Len(device_vector) |-> device_vector[i].path] = OpenedPaths(Pieces, opened)

(***************************************************************************)
(* C10.  Every device handle opened during a pass is closed when the pass  *)
(* ends, however it ends, and at most one is open at any time.             *)
(***************************************************************************)
C10_HandlesClosed ==
  /\ Cardinality(open_handles) <= 1
  /\ epc \in {"done", "panic"} => open_handles = {}

(***************************************************************************)
(* C11.  get_interface_list repeats the whole cycle (size query, resize,   *)
(* fetch) whenever the fetch reports buffer-too-small, raising no error,   *)
(* however many times that happens; the buffer it returns is the one a     *)
(* fetch that reported success filled; and it terminates once the platform *)
(* stops answering buffer-too-small.                                       *)
(***************************************************************************)
LastListCall == list_calls[Len(list_calls)]

InterfaceListReturned == epc \notin {"get_interface_list", "panic"}

C11_CyclesUntilSuccess ==
  \* every cycle but the last was a fetch that reported buffer-too-small
  /\ \A i \in 1..(Len(list_calls) - 1) :
       list_calls[i].cr_size = "CR_SUCCESS" /\ list_calls[i].cr = "CR_BUFFER_SMALL"
  \* and such a fetch is followed by another cycle, not by an error or a return
  /\ (list_calls # <<>> /\ LastListCall.cr = "CR_BUFFER_SMALL")
       => epc = "get_interface_list" /\ retries = Len(list_calls)
  \* the buffer returned is the one the successful fetch filled
  /\ InterfaceListReturned =>
       /\ list_calls # <<>>
       /\ LastListCall.cr_size = "CR_SUCCESS" /\ LastListCall.cr = "CR_SUCCESS"
       /\ device_interface_list = LastListCall.buffer
       /\ Len(device_interface_list) = LastListCall.len

C12_TwoPhaseFetch ==
  fn_call.fn \in {"get_device_interface_property", "get_devnode_property"} =>
    LET resp == fn_call.args[1]
        expected == fn_call.args[2]
    IN /\ resp.type1 # expected =>
            fn_call.result = None /\ Len(fn_call.platform_calls) = 1
       /\ resp.cr1 # "CR_BUFFER_SMALL" => fn_call.result = None
       /\ fn_call.result.kind = "Some" =>
            /\ resp.cr1 = "CR_BUFFER_SMALL"
            /\ resp.type1 = expected
            /\ resp.cr2 = "CR_SUCCESS"
            /\ Len(fn_call.platform_calls) = 2
            /\ fn_call.platform_calls[2].cr = "CR_SUCCESS"
            /\ fn_call.result.val = resp.value

\* get_devnode_property was asked for a string, and the size call reported a
\* string list with status buffer-too-small.
C12_Witness ==
  /\ fn_call.fn = "get_devnode_property"
  /\ fn_call.args[2] = "DEVPROP_TYPE_STRING"
  /\ fn_call.args[1].type1 = "DEVPROP_TYPE_STRING_LIST"
  /\ fn_call.args[1].cr1 = "CR_BUFFER_SMALL"
  /\ fn_call.args[1].cr2 = "CR_SUCCESS"
  /\ fn_call.args[1].len1 = fn_call.args[1].len2
  /\ fn_call.result = None

(***************************************************************************)
(* C13.  When get_ble_info has run, however it ended: a field the fast     *)
(* path left non-empty is unchanged and was not asked for; every field it  *)
(* left empty was asked for, from its Bluetooth property key, whatever     *)
(* happened to the other two, and holds the property's value when there is *)
(* one.  An empty product string whose model number is absent is the       *)
(* display name of the node's parent, and is unchanged if the parent or    *)
(* the name is absent.                                                     *)
(***************************************************************************)
BleFieldResolved(old, new, key) ==
  IF old.val # <<>>
    THEN new = old /\ FetchesOf(key) = {}
    ELSE /\ FetchesOf(key) # {}
         /\ LET i == FirstOf(FetchesOf(key))
            IN /\ Fetched(i) => new = u16str_to_wstring(Units(i))
               /\ calls[i].res.kind = "None" => new = old

BleProductResolved(old, new) ==
  IF old.val # <<>>
    THEN new = old /\ FetchesOf("PKEY_DeviceInterface_Bluetooth_ModelNumber") = {}
    ELSE /\ FetchesOf("PKEY_DeviceInterface_Bluetooth_ModelNumber") # {}
         /\ LET i == FirstOf(FetchesOf("PKEY_DeviceInterface_Bluetooth_ModelNumber"))
                names == FetchesOf("DEVPKEY_NAME")
            IN /\ Fetched(i) => new = u16str_to_wstring(Units(i))
               /\ calls[i].res.kind = "None" =>
                    /\ Len(calls) > i /\ calls[i + 1].op = "get_dev_node_parent"
                    /\ calls[i + 1].res.kind = "None" => new = old /\ names = {}
                    /\ calls[i + 1].res.kind = "Some" =>
                         /\ names # {}
                         /\ calls[FirstOf(names)].node = calls[i + 1].res.val
                         /\ Fetched(FirstOf(names)) =>
                              new = u16str_to_wstring(Units(FirstOf(names)))
                         /\ calls[FirstOf(names)].res.kind = "None" => new = old

C13_BleFieldsIndependent ==
  (Invoked("get_ble_info") /\ pc \in {"returned", "panic"}) =>
    /\ BleFieldResolved(fast_path.manufacturer_string, dev.manufacturer_string,
                        "PKEY_DeviceInterface_Bluetooth_Manufacturer")
    /\ BleFieldResolved(fast_path.serial_number, dev.serial_number,
                        "PKEY_DeviceInterface_Bluetooth_DeviceAddress")
    /\ BleProductResolved(fast_path.product_string, dev.product_string)

(***************************************************************************)
(* C14.  starts_with_ignore_case(haystack, pattern) is true exactly when   *)
(* the haystack has at least as many characters as the pattern and its     *)
(* first characters equal the pattern ignoring ASCII case; it is false for *)
(* every haystack shorter than the pattern, the empty one included.        *)
(***************************************************************************)
C14_StartsWithIgnoreCase ==
  fn_call.fn = "starts_with_ignore_case" =>
    LET haystack == fn_call.args[1]
        pattern == fn_call.args[2]
    IN /\ fn_call.result = BeginsWith(haystack, pattern)
       /\ Len(haystack) < Len(pattern) => fn_call.result = FALSE

(***************************************************************************)
(* C15.  extract_int_token_value(s, token) is absent when the token does   *)
(* not occur in s or no hexadecimal digit follows its first occurrence;    *)
(* otherwise it is the base-16 value, most significant digit first, of the *)
(* maximal run of hexadecimal digits that follows the first occurrence, as *)
(* an unsigned 32-bit integer, and the call never aborts.                  *)
(***************************************************************************)
\* The hexadecimal digits that follow position `from` of s, up to the first
\* character that is not one.
RECURSIVE DigitRun(_, _)
DigitRun(s, from) ==
  IF from > Len(s) \/ ~IsHexDigit(s[from]) THEN <<>>
  ELSE <<s[from]>> \o DigitRun(s, from + 1)

DigitValue(c) == IF c <= 57 THEN c - 48 ELSE IF c <= 70 THEN c - 55 ELSE c - 87

\* The k-th digit from the right of a run, 0 beyond its length.
DigitFromRight(run, k) == IF k > Len(run) THEN 0 ELSE DigitValue(run[Len(run) + 1 - k])

\* Four digits of the run, the lowest of them the (k + 1)-th from the right.
HalfWord(run, k) ==
  DigitFromRight(run, k + 1) + 16 * DigitFromRight(run, k + 2)
    + 256 * DigitFromRight(run, k + 3) + 4096 * DigitFromRight(run, k + 4)

\* The value of the run in 32 bits, as its two 16-bit halves.
RunValue(run) == U32(HalfWord(run, 4), HalfWord(run, 0))

C15_ExtractIntTokenValue ==
  fn_call.fn = "extract_int_token_value" =>
    LET s == fn_call.args[1]
        token == fn_call.args[2]
        n == Len(token)
        at == {i \in 1..(Len(s) - n + 1) : SubSeq(s, i, i + n - 1) = token}
        run == DigitRun(s, FirstOf(at) + n)
    IN /\ fn_call.result.kind # "Panic"
       /\ fn_call.result = IF at = {} \/ run = <<>> THEN None ELSE Some(RunValue(run))

====
